---- MODULE Spec2Model ----
(***************************************************************************)
(* Model of the two teaching notebooks src/cython/001-cython.ipynb and     *)
(* src/cython/002-numba.ipynb.  The notebooks repeat one idiom:            *)
(*     t1 = %timeit -o baseline(args)                                      *)
(*     t2 = %timeit -o variant(args)                                       *)
(*     print(t1.best / t2.best)                                            *)
(* The module models                                                       *)
(*   - the division t1.best / t2.best as Python evaluates it (operands     *)
(*     left to right, float true division)              (SpecCompare),     *)
(*   - the %timeit -o measurement loop                  (SpecMeasure),     *)
(*   - the fib / fibx functions that are timed          (SpecFib),         *)
(*   - the cells of the notebooks run against a kernel  (SpecNotebook).    *)
(***************************************************************************)
EXTENDS Integers, Sequences, FiniteSets, TLC

VARIABLES
    \* ---- t1.best / t2.best ------------------------------------------------
    baseline,     \* all_runs of the TimeitResult on the left of the division
    variant,      \* all_runs of the TimeitResult on the right of the division
    cmp_pc,       \* position in the evaluation of the expression
    bbest,        \* value of <left>.best once evaluated, else None
    vbest,        \* value of <right>.best once evaluated, else None
    ratio,        \* value of the division once evaluated, else None
    cmp_err,      \* the exception that ended the evaluation, else None
    divisions,    \* number of float divisions <left>.best / <right>.best done
    prev_ratio,   \* ratio printed by the previous comparison, else None
    \* ---- name = %timeit -o stmt -------------------------------------------
    opt_n,        \* the -n option; 0 when not given (as in every notebook cell)
    repeat,       \* the -r option (timeit.default_repeat when not given)
    number,       \* loops per timed block
    tm_pc,        \* "tuning", "repeat", "done" or "raised"
    tune_i,       \* rounds of the loop-count tuning done so far
    all_runs,     \* elapsed time of each timed block so far
    now,          \* reading of the timer
    calls,        \* invocations of the timed statement so far
    tune_calls,   \* those of them made while tuning the loop count
    result,       \* the TimeitResult bound by -o, else NoResult
    tm_err,       \* the exception that ended %timeit, else None
    \* ---- fib(n) and fibx(n) ------------------------------------------------
    fib_n,        \* the argument n of both calls
    py_i,         \* fib: iterations of the loop done
    py_a,         \* fib: a (a Python int)
    py_b,         \* fib: b (a Python int)
    py_pc,        \* fib: "loop" or "done"
    py_ret,       \* fib: the value returned, else NoInt
    cx_i,         \* fibx: iterations of the loop done
    cx_a,         \* fibx: a (cdef int)
    cx_b,         \* fibx: b (cdef int)
    cx_pc,        \* fibx: "loop" or "done"
    cx_ret,       \* fibx: the value returned, else NoInt
    \* ---- the kernel a notebook runs against -------------------------------
    notebook,     \* "cython" (001-cython.ipynb) or "numba" (002-numba.ipynb)
    cell,         \* index of the code cell that is run next
    ns,           \* the kernel namespace: name -> [cell that bound it, .best]
    ext_loaded,   \* the Cython extension is loaded: %%cython is known
    printed,      \* the ratios printed by the cell run last
    nb_err        \* the exception that ended the cell run last, else None

cmpVars == <<baseline, variant, cmp_pc, bbest, vbest, ratio, cmp_err,
             divisions, prev_ratio>>

tmVars == <<opt_n, repeat, number, tm_pc, tune_i, all_runs, now, calls,
            tune_calls, result, tm_err>>

fibVars == <<fib_n, py_i, py_a, py_b, py_pc, py_ret, cx_i, cx_a, cx_b, cx_pc, cx_ret>>

nbVars == <<notebook, cell, ns, ext_loaded, printed, nb_err>>

vars == <<cmpVars, tmVars, fibVars, nbVars>>

None == "None"                 \* no exception
NoValue == [m |-> -1, e |-> 0]   \* a float-valued name that is not bound yet

(***************************************************************************)
(* Bounds of the model.                                                    *)
(***************************************************************************)
MaxTick == 5        \* largest duration, in clock ticks, of one timed block
MaxLen == 2         \* longest sample drawn freely from 0..MaxTick
FloatBits == 6      \* significand width of the modelled binary float
MaxLoops == 2       \* largest explicit -n
MaxRepeat == 3      \* largest -r
MaxTune == 2        \* tuning rounds after which a block is never below the threshold
MaxN == 46          \* largest argument of fib and fibx
MaxNeg == 1         \* the smallest argument of fib and fibx is -MaxNeg
MaxBest == 2        \* largest .best, in ticks, of a %timeit run of a notebook cell

(***************************************************************************)
(* Python float: a non-negative binary floating-point number m * 2^e with  *)
(* a FloatBits-bit significand, rounded to nearest, ties to even.  Zero is *)
(* [m |-> 0, e |-> 0].                                                     *)
(***************************************************************************)
RECURSIVE Pow2(_)
Pow2(k) == IF k <= 0 THEN 1 ELSE 2 * Pow2(k - 1)

FZero == [m |-> 0, e |-> 0]

\* <<n, d, e>> with n/d * 2^e the same rational and 2^(p-1) <= n/d < 2^p
RECURSIVE Normalize(_, _, _)
Normalize(n, d, e) ==
    IF n < d * Pow2(FloatBits - 1) THEN Normalize(2 * n, d, e - 1)
    ELSE IF n >= d * Pow2(FloatBits) THEN Normalize(n, 2 * d, e + 1)
    ELSE <<n, d, e>>

\* the float nearest to n/d (n >= 0, d > 0), ties to even
RoundRat(n, d) ==
    IF n = 0 THEN FZero
    ELSE LET nde == Normalize(n, d, 0)
             q   == nde[1] \div nde[2]
             r   == nde[1] % nde[2]
             up  == 2 * r > nde[2] \/ (2 * r = nde[2] /\ q % 2 = 1)
             m   == IF up THEN q + 1 ELSE q
         IN  IF m = Pow2(FloatBits)
             THEN [m |-> Pow2(FloatBits - 1), e |-> nde[3] + 1]
             ELSE [m |-> m, e |-> nde[3]]

FromInt(k) == RoundRat(k, 1)

\* x / y for floats, y # 0
FDiv(x, y) ==
    LET q == RoundRat(x.m, y.m)
    IN  IF q.m = 0 THEN FZero ELSE [m |-> q.m, e |-> q.e + x.e - y.e]

\* x * y for floats
FMul(x, y) ==
    LET q == RoundRat(x.m * y.m, 1)
    IN  IF q.m = 0 THEN FZero ELSE [m |-> q.m, e |-> q.e + x.e + y.e]

\* x.m * 2^x.e and y.m * 2^y.e brought to the smaller exponent
Scaled(x, y) ==
    LET lo == IF x.e < y.e THEN x.e ELSE y.e
    IN  <<x.m * Pow2(x.e - lo), y.m * Pow2(y.e - lo)>>

FLess(x, y) == Scaled(x, y)[1] < Scaled(x, y)[2]

FOne == FromInt(1)

(***************************************************************************)
(* The comparison idiom (001-cython.ipynb lines 225-227 and alike):        *)
(*     time_fib  = %timeit -o fib(10)      -> .best of the left operand    *)
(*     time_fibx = %timeit -o fibx(10)     -> .best of the right operand   *)
(*     print(time_fib.best/time_fibx.best)                                 *)
(* A sample is the sequence of per-loop durations of one %timeit run, in   *)
(* clock ticks.                                                            *)
(***************************************************************************)
RECURSIVE SeqsOfLen(_, _)
SeqsOfLen(S, k) ==
    IF k = 0 THEN {<<>>}
    ELSE {Append(s, x) : s \in SeqsOfLen(S, k - 1), x \in S}

SeqsUpTo(S, k) == UNION {SeqsOfLen(S, j) : j \in 0..k}

\* the samples of the end-to-end scenarios of the specification
ScenarioSamples == {<<10, 12, 11>>, <<2, 3, 2>>, <<5>>}

SampleInputs == SeqsUpTo(0..MaxTick, MaxLen) \cup ScenarioSamples

\* Python's min() over a non-empty sequence, scanning left to right
RECURSIVE PyMin(_)
PyMin(s) ==
    IF Len(s) = 1 THEN s[1]
    ELSE LET rest == PyMin(Tail(s))
         IN  IF rest < s[1] THEN rest ELSE s[1]

\* best_of taking the first timing instead of the smallest
best_of_first(sample) ==
    IF sample = <<>>
    THEN [err |-> "ValueError", val |-> NoValue]
    ELSE [err |-> None, val |-> FromInt(sample[1])]

\* best_of written as min(sample, default=0)
best_of_default(sample) ==
    IF sample = <<>>
    THEN [err |-> None, val |-> FZero]
    ELSE [err |-> None, val |-> FromInt(PyMin(sample))]

\* TimeitResult.best as a float: min() of the sample; min() of an empty
\* sequence raises ValueError and no value is produced
best_of(sample) ==
    IF sample = <<>>
    THEN [err |-> "ValueError", val |-> NoValue]
    ELSE [err |-> None, val |-> FromInt(PyMin(sample))]

\* the division with its operands exchanged
compare_swapped(b, v) == IF b = FZero THEN FZero ELSE FDiv(v, b)

\* the division written // (floor division) instead of /
compare_floordiv(b, v) == FromInt(Scaled(b, v)[1] \div Scaled(b, v)[2])

\* Python's float.__truediv__ on <left>.best / <right>.best, divisor not zero
compare(b, v) == FDiv(b, v)

\* a step of the comparison leaves everything else alone
CmpFrame == UNCHANGED <<tmVars, fibVars, nbVars>>

CmpInit ==
    /\ baseline \in SampleInputs
    /\ variant \in SampleInputs
    /\ cmp_pc = "baseline"
    /\ bbest = NoValue
    /\ vbest = NoValue
    /\ ratio = NoValue
    /\ cmp_err = None
    /\ divisions = 0
    /\ prev_ratio = NoValue

\* the left operand's best
EvalBaseline ==
    /\ cmp_pc = "baseline"
    /\ LET b == best_of(baseline)
       IN  /\ cmp_err' = b.err
           /\ bbest' = b.val
           /\ cmp_pc' = (IF b.err = None THEN "variant" ELSE "raised")
    /\ UNCHANGED <<baseline, variant, vbest, ratio, divisions, prev_ratio>>
    /\ CmpFrame

\* the right operand's best
EvalVariant ==
    /\ cmp_pc = "variant"
    /\ LET v == best_of(variant)
       IN  /\ cmp_err' = v.err
           /\ vbest' = v.val
           /\ cmp_pc' = (IF v.err = None THEN "divide" ELSE "raised")
    /\ UNCHANGED <<baseline, variant, bbest, ratio, divisions, prev_ratio>>
    /\ CmpFrame

\* <left>.best / <right>.best; a zero divisor raises ZeroDivisionError
Divide ==
    /\ cmp_pc = "divide"
    /\ IF vbest = FZero
       THEN /\ cmp_err' = "ZeroDivisionError"
            /\ cmp_pc' = "raised"
            /\ UNCHANGED <<ratio, divisions>>
       ELSE /\ ratio' = compare(bbest, vbest)
            /\ divisions' = divisions + 1
            /\ cmp_pc' = "done"
            /\ UNCHANGED cmp_err
    /\ UNCHANGED <<baseline, variant, bbest, vbest, prev_ratio>>
    /\ CmpFrame

\* the same two results compared again with the operands exchanged
SwapOperands ==
    /\ cmp_pc = "done"
    /\ prev_ratio = NoValue
    /\ prev_ratio' = ratio
    /\ baseline' = variant
    /\ variant' = baseline
    /\ cmp_pc' = "baseline"
    /\ bbest' = NoValue
    /\ vbest' = NoValue
    /\ ratio' = NoValue
    /\ UNCHANGED <<cmp_err, divisions>>
    /\ CmpFrame

CmpNext == EvalBaseline \/ EvalVariant \/ Divide \/ SwapOperands

\* no comparison under way
CmpIdle ==
    /\ baseline = <<>>
    /\ variant = <<>>
    /\ cmp_pc = "idle"
    /\ bbest = NoValue
    /\ vbest = NoValue
    /\ ratio = NoValue
    /\ cmp_err = None
    /\ divisions = 0
    /\ prev_ratio = NoValue

(***************************************************************************)
(* name = %timeit -o stmt  (001-cython.ipynb line 81 and alike).  The magic *)
(* tunes the loop count by powers of ten when -n is not given ("1000000    *)
(* loops"), times `repeat` blocks of `number` invocations ("best of 3"),   *)
(* and returns a TimeitResult whose best is min(all_runs) / number.        *)
(***************************************************************************)
TimeitRepeat == 3      \* timeit.default_repeat: "best of 3"
TimeitFactor == 10     \* the loop count is tuned in powers of ten
TuneRounds == 9        \* at most nine tuning rounds: up to 10^9 loops
TuneThreshold == 2     \* 0.2 s, in ticks: a tuning block this long ends the tuning

NoResult == [loops |-> 0, repeat |-> 0, best |-> NoValue, all_runs |-> <<>>]

\* timeit.Timer.timeit: t1 - t0 around the block
Elapsed(t0, t1) == t1 - t0

\* the repeat loop running once too often
RepeatDone_offbyone(runs, r) == Len(runs) >= r + 1

\* timeit.Timer.repeat: for i in range(repeat)
RepeatDone(runs, r) == Len(runs) >= r

\* the exception swallowed and the measurement carried on
AfterRaise_retry == "repeat"

\* where control goes when the timed statement raises: out of %timeit
AfterRaise == "raised"

\* TimeitResult(number, repeat, best, all_runs, ...)
TimeitResult(n, r, runs) ==
    [loops |-> n, repeat |-> r,
     best |-> FDiv(FromInt(PyMin(runs)), FromInt(n)), all_runs |-> runs]

\* a step of %timeit leaves everything else alone
TmFrame == UNCHANGED <<cmpVars, fibVars, nbVars>>

TmInit ==
    /\ opt_n \in 0..MaxLoops
    /\ repeat \in 0..MaxRepeat
    /\ number = (IF opt_n = 0 THEN 1 ELSE opt_n)
    /\ tm_pc = (IF opt_n = 0 THEN "tuning" ELSE "repeat")
    /\ tune_i = 0
    /\ all_runs = <<>>
    /\ now = 0
    /\ calls = 0
    /\ tune_calls = 0
    /\ result = NoResult
    /\ tm_err = None

\* one round of: for _ in range(1, 10):
\*                   if timer.timeit(number) >= 0.2: break
\*                   number *= 10
Tune ==
    /\ tm_pc = "tuning"
    /\ \E d \in 0..MaxTick :
         /\ (tune_i + 1 >= MaxTune => d >= TuneThreshold)
         /\ now' = now + d
         /\ IF Elapsed(now, now') >= TuneThreshold
            THEN /\ tm_pc' = "repeat"
                 /\ UNCHANGED <<number, tune_i>>
            ELSE /\ number' = number * TimeitFactor
                 /\ tune_i' = tune_i + 1
                 /\ tm_pc' = (IF tune_i + 1 = TuneRounds THEN "repeat" ELSE "tuning")
    /\ calls' = calls + number
    /\ tune_calls' = tune_calls + number
    /\ UNCHANGED <<opt_n, repeat, all_runs, result, tm_err>>
    /\ TmFrame

\* the k-th invocation of a tuning block raises
TuneRaise ==
    /\ tm_pc = "tuning"
    /\ \E k \in 1..number :
         /\ calls' = calls + k
         /\ tune_calls' = tune_calls + k
    /\ tm_err' = "TargetException"
    /\ tm_pc' = AfterRaise
    /\ UNCHANGED <<opt_n, repeat, number, tune_i, all_runs, now, result>>
    /\ TmFrame

\* one round of timer.repeat(repeat, number): r.append(self.timeit(number))
Repeat ==
    /\ tm_pc = "repeat"
    /\ ~RepeatDone(all_runs, repeat)
    /\ \E d \in 0..MaxTick :
         /\ now' = now + d
         /\ all_runs' = Append(all_runs, Elapsed(now, now'))
    /\ calls' = calls + number
    /\ UNCHANGED <<opt_n, repeat, number, tm_pc, tune_i, tune_calls, result, tm_err>>
    /\ TmFrame

\* the k-th invocation of a timed block raises
RepeatRaise ==
    /\ tm_pc = "repeat"
    /\ ~RepeatDone(all_runs, repeat)
    /\ \E k \in 1..number : calls' = calls + k
    /\ tm_err' = "TargetException"
    /\ tm_pc' = AfterRaise
    /\ UNCHANGED <<opt_n, repeat, number, tune_i, all_runs, now, tune_calls, result>>
    /\ TmFrame

\* best = min(all_runs) / number; return TimeitResult(...)
Finish ==
    /\ tm_pc = "repeat"
    /\ RepeatDone(all_runs, repeat)
    /\ IF all_runs = <<>>
       THEN /\ tm_err' = "ValueError"
            /\ tm_pc' = "raised"
            /\ UNCHANGED result
       ELSE /\ result' = TimeitResult(number, repeat, all_runs)
            /\ tm_pc' = "done"
            /\ UNCHANGED tm_err
    /\ UNCHANGED <<opt_n, repeat, number, tune_i, all_runs, now, calls, tune_calls>>
    /\ TmFrame

TmNext == Tune \/ TuneRaise \/ Repeat \/ RepeatRaise \/ Finish

\* no measurement under way
TmIdle ==
    /\ opt_n = 0
    /\ repeat = TimeitRepeat
    /\ number = 0
    /\ tm_pc = "idle"
    /\ tune_i = 0
    /\ all_runs = <<>>
    /\ now = 0
    /\ calls = 0
    /\ tune_calls = 0
    /\ result = NoResult
    /\ tm_err = None

(***************************************************************************)
(* fib (001-cython.ipynb lines 175-180, 002-numba.ipynb lines 48-53) and   *)
(* fibx with `cdef int i, a, b` (001-cython.ipynb lines 253-258):          *)
(*     a, b = 1, 1                                                         *)
(*     for i in range(n):                                                  *)
(*         a, b = a+b, a                                                   *)
(*     return a                                                            *)
(* A Python int is unbounded: it is kept as hi * 2^LimbBits + lo.  A C int *)
(* is the IntBits-bit two's-complement pattern hi * 2^LimbBits + lo.  An   *)
(* int object seen by the caller is [neg, hi, lo]: sign and magnitude.     *)
(***************************************************************************)
IntBits == 32       \* width of a C int
LimbBits == 16      \* width of lo

Limb == Pow2(LimbBits)

Big(k) == [hi |-> k \div Limb, lo |-> k % Limb]

BigAdd(x, y) ==
    [hi |-> x.hi + y.hi + (x.lo + y.lo) \div Limb, lo |-> (x.lo + y.lo) % Limb]

NoInt == [neg |-> FALSE, hi |-> -1, lo |-> -1]

\* int.__add__ of two non-negative Python ints
PyAdd(x, y) == BigAdd(x, y)

\* a + b on C ints: the sum modulo 2^IntBits
CAdd(x, y) ==
    [hi |-> BigAdd(x, y).hi % Pow2(IntBits - LimbBits), lo |-> BigAdd(x, y).lo]

\* the int object for a non-negative Python int
PyObj(x) == [neg |-> FALSE, hi |-> x.hi, lo |-> x.lo]

\* the int object for a C int: its pattern read as a signed number
CObj(x) ==
    IF x.hi < Pow2(IntBits - LimbBits - 1)
    THEN [neg |-> FALSE, hi |-> x.hi, lo |-> x.lo]
    ELSE [neg |-> TRUE,
          hi |-> Pow2(IntBits - LimbBits) - 1 - x.hi + (IF x.lo = 0 THEN 1 ELSE 0),
          lo |-> (Limb - x.lo) % Limb]

\* a, b = a+b, a  written as  a = a+b; b = a
PyStep_sequential(a, b) == <<PyAdd(a, b), PyAdd(a, b)>>

\* a, b = a+b, a  in fib: both targets from the old values
PyStep(a, b) == <<PyAdd(a, b), a>>

\* a, b = a+b, a  in fibx
CStep(a, b) == <<CAdd(a, b), a>>

\* for i in range(n): is there another iteration after i of them
MoreIterations(i, k) == i < k

\* a step of fib or fibx leaves everything else alone
FibFrame == UNCHANGED <<cmpVars, tmVars, nbVars>>

FibInit ==
    /\ fib_n \in (0 - MaxNeg)..MaxN
    /\ py_i = 0
    /\ py_a = Big(1)
    /\ py_b = Big(1)
    /\ py_pc = "loop"
    /\ py_ret = NoInt
    /\ cx_i = 0
    /\ cx_a = Big(1)
    /\ cx_b = Big(1)
    /\ cx_pc = "loop"
    /\ cx_ret = NoInt

\* fib: one iteration of the loop
FibIter ==
    /\ py_pc = "loop"
    /\ MoreIterations(py_i, fib_n)
    /\ py_a' = PyStep(py_a, py_b)[1]
    /\ py_b' = PyStep(py_a, py_b)[2]
    /\ py_i' = py_i + 1
    /\ UNCHANGED <<fib_n, py_pc, py_ret, cx_i, cx_a, cx_b, cx_pc, cx_ret>>
    /\ FibFrame

\* fib: return a
FibReturn ==
    /\ py_pc = "loop"
    /\ ~MoreIterations(py_i, fib_n)
    /\ py_ret' = PyObj(py_a)
    /\ py_pc' = "done"
    /\ UNCHANGED <<fib_n, py_i, py_a, py_b, cx_i, cx_a, cx_b, cx_pc, cx_ret>>
    /\ FibFrame

\* fibx: one iteration of the loop
FibxIter ==
    /\ cx_pc = "loop"
    /\ MoreIterations(cx_i, fib_n)
    /\ cx_a' = CStep(cx_a, cx_b)[1]
    /\ cx_b' = CStep(cx_a, cx_b)[2]
    /\ cx_i' = cx_i + 1
    /\ UNCHANGED <<fib_n, py_i, py_a, py_b, py_pc, py_ret, cx_pc, cx_ret>>
    /\ FibFrame

\* fibx: return a, converted to an int object
FibxReturn ==
    /\ cx_pc = "loop"
    /\ ~MoreIterations(cx_i, fib_n)
    /\ cx_ret' = CObj(cx_a)
    /\ cx_pc' = "done"
    /\ UNCHANGED <<fib_n, py_i, py_a, py_b, py_pc, py_ret, cx_i, cx_a, cx_b>>
    /\ FibFrame

FibNext == FibIter \/ FibReturn \/ FibxIter \/ FibxReturn

\* neither function called
FibIdle ==
    /\ fib_n = 0
    /\ py_i = 0
    /\ py_a = Big(1)
    /\ py_b = Big(1)
    /\ py_pc = "idle"
    /\ py_ret = NoInt
    /\ cx_i = 0
    /\ cx_a = Big(1)
    /\ cx_b = Big(1)
    /\ cx_pc = "idle"
    /\ cx_ret = NoInt

(***************************************************************************)
(* The code cells of the two notebooks, run against one kernel.  A cell is *)
(* a sequence of statements; a statement reads names, may call functions   *)
(* (whose bodies read names when called), and binds names.  An exception   *)
(* ends the cell: the statements before it keep their effect.              *)
(***************************************************************************)
Unbound == 0             \* ns[name].cell of a name that is not bound
Startup == 0 - 1         \* ns[name].cell of a name bound when the kernel started

Def(binds, reads) ==
    [kind |-> "bind", reads |-> reads, calls |-> {}, binds |-> binds,
     num |-> "", den |-> ""]

LoadExt ==
    [kind |-> "ext", reads |-> {}, calls |-> {}, binds |-> {},
     num |-> "", den |-> ""]

\* var = %timeit -o f(args)
Timeit(var, f, argreads) ==
    [kind |-> "timeit", reads |-> argreads, calls |-> {f}, binds |-> {var},
     num |-> "", den |-> ""]

\* print(num.best/den.best), or binds = num.best/den.best; print(binds)
PrintRatio(num, den, binds) ==
    [kind |-> "ratio", reads |-> {num, den}, calls |-> {}, binds |-> binds,
     num |-> num, den |-> den]

PyCell(stmts) == [cython |-> FALSE, stmts |-> stmts]

CythonCell(stmts) == [cython |-> TRUE, stmts |-> stmts]

\* 001-cython.ipynb
CythonCells == <<
    PyCell(<<LoadExt>>),
    PyCell(<<Def({"my_poly"}, {})>>),
    PyCell(<<Timeit("time_my_poly", "my_poly", {})>>),
    CythonCell(<<Def({"my_polyx"}, {})>>),
    PyCell(<<Timeit("time_my_polyx", "my_polyx", {})>>),
    PyCell(<<PrintRatio("time_my_poly", "time_my_polyx", {"speedup"})>>),
    PyCell(<<Def({"fib"}, {})>>),
    CythonCell(<<Def({"fibx"}, {})>>),
    PyCell(<<Timeit("time_fib", "fib", {}),
             Timeit("time_fibx", "fibx", {}),
             PrintRatio("time_fib", "time_fibx", {})>>),
    CythonCell(<<Def({"fibx"}, {})>>),
    PyCell(<<Timeit("time_fib", "fib", {}),
             Timeit("time_fibx", "fibx", {}),
             PrintRatio("time_fib", "time_fibx", {})>>),
    PyCell(<<Def({"cython"}, {}), Def({"fib_pure_python"}, {"cython"})>>),
    CythonCell(<<Def({"fib_pure_pythonx"}, {})>>),
    PyCell(<<Timeit("time_fib_pure_python", "fib_pure_python", {}),
             Timeit("time_fib_pure_pythonx", "fib_pure_pythonx", {}),
             PrintRatio("time_fib_pure_python", "time_fib_pure_pythonx", {})>>) >>

\* 002-numba.ipynb
NumbaCells == <<
    PyCell(<<Def({"jit"}, {}), Def({"numpy"}, {})>>),
    PyCell(<<Def({"fib"}, {})>>),
    PyCell(<<Def({"fib_numba"}, {"jit", "fib"})>>),
    PyCell(<<Timeit("time_fib", "fib", {}),
             Timeit("time_numba", "fib_numba", {}),
             PrintRatio("time_fib", "time_numba", {})>>),
    PyCell(<<Def({"pdist_numpy"}, {})>>),
    PyCell(<<Def({"pdist_numba"}, {"jit", "pdist_numpy"})>>),
    PyCell(<<LoadExt>>),
    CythonCell(<<Def({"cnp", "pdistx"}, {})>>),
    PyCell(<<Timeit("time_pdist_numpy", "pdist_numpy", {"np"}),
             Timeit("time_pdist_numba", "pdist_numba", {"np"}),
             Timeit("time_pdistx", "pdistx", {"np"}),
             PrintRatio("time_pdist_numpy", "time_pdist_numba", {}),
             PrintRatio("time_pdist_numpy", "time_pdistx", {})>>),
    PyCell(<<Def({"pdist_python"}, {})>>),
    PyCell(<<Timeit("time_pdist_python", "pdist_python", {"np"}),
             PrintRatio("time_pdist_python", "time_pdist_numpy", {})>>),
    PyCell(<<Def({"pdist_python_numba"}, {"jit", "pdist_python"})>>),
    PyCell(<<Timeit("time_pdist_python_numba", "pdist_python_numba", {"np"}),
             PrintRatio("time_pdist_numpy", "time_pdist_python_numba", {})>>),
    PyCell(<<Def({"cdist"}, {})>>),
    PyCell(<<Def({"X"}, {"np"})>>),
    PyCell(<<Def({"X"}, {"np"}),
             Timeit("time_cdist", "cdist", {"X"}),
             PrintRatio("time_pdist_python_numba", "time_cdist", {})>>) >>

Cells(nb) == IF nb = "cython" THEN CythonCells ELSE NumbaCells

\* the global names a function's body reads when it is called
BodyReads(f) ==
    IF f \in {"pdist_numpy", "pdist_numba", "pdist_python", "pdist_python_numba"}
    THEN {"np"}
    ELSE IF f = "fib_pure_python" THEN {"cython"}
    ELSE {}

StmtNames(s) == s.reads \cup s.calls \cup s.binds \cup UNION {BodyReads(f) : f \in s.calls}

CellNames(c) == UNION {StmtNames(c.stmts[i]) : i \in 1..Len(c.stmts)}

Names ==
    UNION {CellNames(CythonCells[i]) : i \in 1..Len(CythonCells)}
    \cup UNION {CellNames(NumbaCells[i]) : i \in 1..Len(NumbaCells)}

\* the names a statement needs bound when it runs
Needs(s) == s.reads \cup s.calls \cup UNION {BodyReads(f) : f \in s.calls}

\* the number of timings a cell takes
TimeitCount(cl) == Cardinality({i \in 1..Len(cl.stmts) : cl.stmts[i].kind = "timeit"})

BestInputs == {FromInt(k) : k \in 0..MaxBest}

UnboundName == [cell |-> Unbound, best |-> NoValue]

\* a binding that leaves an already bound name as it is
Bind_keepfirst(space, names, c, b) ==
    [x \in DOMAIN space |->
        IF x \in names /\ space[x].cell = Unbound
        THEN [cell |-> c, best |-> b] ELSE space[x]]

\* name = value, for every name of names, in cell c
Bind(space, names, c, b) ==
    [x \in DOMAIN space |-> IF x \in names THEN [cell |-> c, best |-> b] ELSE space[x]]

\* the effect of statement s of cell c on st = [ns, ext, printed, err, t];
\* bs[st.t] is the best of the timing a %timeit statement takes
ExecStmt(s, c, bs, st) ==
    IF \E x \in Needs(s) : st.ns[x].cell = Unbound
    THEN [st EXCEPT !.err = "NameError"]
    ELSE IF s.kind = "ext" THEN [st EXCEPT !.ext = TRUE]
    ELSE IF s.kind = "bind" THEN [st EXCEPT !.ns = Bind(st.ns, s.binds, c, NoValue)]
    ELSE IF s.kind = "timeit"
    THEN [st EXCEPT !.ns = Bind(st.ns, s.binds, c, bs[st.t]), !.t = st.t + 1]
    ELSE IF st.ns[s.den].best = FZero
    THEN [st EXCEPT !.err = "ZeroDivisionError"]
    ELSE LET r == compare(st.ns[s.num].best, st.ns[s.den].best)
         IN  [st EXCEPT
                !.ns = Bind(st.ns, s.binds, c, r),
                !.printed = Append(st.printed,
                    [cell |-> c, num |-> s.num, den |-> s.den,
                     num_cell |-> st.ns[s.num].cell,
                     den_cell |-> st.ns[s.den].cell,
                     ratio |-> r])]

\* the statements of a cell from the i-th on, until one raises
RECURSIVE ExecFrom(_, _, _, _, _)
ExecFrom(stmts, i, c, bs, st) ==
    IF i > Len(stmts) \/ st.err # None THEN st
    ELSE ExecFrom(stmts, i + 1, c, bs, ExecStmt(stmts[i], c, bs, st))

\* running code cell c of the notebook: nothing of it runs when it is a
\* %%cython cell and the extension is not loaded
ExecCell(c, bs) ==
    LET st0 == [ns |-> ns, ext |-> ext_loaded, printed |-> <<>>, err |-> None, t |-> 1]
        cl  == Cells(notebook)[c]
    IN  IF cl.cython /\ ~ext_loaded
        THEN [st0 EXCEPT !.err = "UsageError"]
        ELSE ExecFrom(cl.stmts, 1, c, bs, st0)

\* a step of the kernel leaves everything else alone
NbFrame == UNCHANGED <<cmpVars, tmVars, fibVars>>

\* a fresh kernel; np is bound at startup when the kernel was started in
\* pylab mode, and by no cell of either notebook
NbInit ==
    /\ notebook \in {"cython", "numba"}
    /\ cell = 1
    /\ \E pylab \in BOOLEAN :
         ns = [x \in Names |->
                 IF pylab /\ x = "np"
                 THEN [cell |-> Startup, best |-> NoValue]
                 ELSE UnboundName]
    /\ ext_loaded = FALSE
    /\ printed = <<>>
    /\ nb_err = None

RunCell(c) ==
    \E bs \in [1..TimeitCount(Cells(notebook)[c]) -> BestInputs] :
        LET st == ExecCell(c, bs)
        IN  /\ ns' = st.ns
            /\ ext_loaded' = st.ext
            /\ printed' = st.printed
            /\ nb_err' = st.err
            /\ cell' = c + 1
            /\ UNCHANGED notebook
            /\ NbFrame

\* the next cell down is run
RunNext ==
    /\ cell \in 1..Len(Cells(notebook))
    /\ RunCell(cell)

NbNext == RunNext

\* no kernel running
NbIdle ==
    /\ notebook = "cython"
    /\ cell = 0
    /\ ns = [x \in Names |-> UnboundName]
    /\ ext_loaded = FALSE
    /\ printed = <<>>
    /\ nb_err = None

(***************************************************************************)
(* Specifications.                                                         *)
(***************************************************************************)
InitCompare == CmpInit /\ TmIdle /\ FibIdle /\ NbIdle

SpecCompare == InitCompare /\ [][CmpNext]_vars

InitMeasure == TmInit /\ CmpIdle /\ FibIdle /\ NbIdle

SpecMeasure == InitMeasure /\ [][TmNext]_vars

InitFib == FibInit /\ CmpIdle /\ TmIdle /\ NbIdle

SpecFib == InitFib /\ [][FibNext]_vars

InitNotebook == NbInit /\ CmpIdle /\ TmIdle /\ FibIdle

SpecNotebook == InitNotebook /\ [][NbNext]_vars

\* any of the four
Init == InitCompare \/ InitMeasure \/ InitFib \/ InitNotebook

Next == CmpNext \/ TmNext \/ FibNext \/ NbNext

Spec == Init /\ [][Next]_vars

(***************************************************************************)
(* Properties.                                                             *)
(***************************************************************************)
\* m is the smallest element of the non-empty sequence s
IsMin(m, s) ==
    /\ \E i \in 1..Len(s) : s[i] = m
    /\ \A i \in 1..Len(s) : m <= s[i]

\* the float x has the integer value k
FEqInt(x, k) ==
    IF x.e >= 0 THEN x.m * Pow2(x.e) = k ELSE x.m = k * Pow2(-x.e)

Abs(i) == IF i < 0 THEN -i ELSE i

\* the float x is within half a unit in its last place of the rational a/b
NearestTo(x, a, b) ==
    IF x.e >= 0
    THEN 2 * Abs(x.m * Pow2(x.e) * b - a) <= Pow2(x.e) * b
    ELSE 2 * Abs(x.m * b - a * Pow2(-x.e)) <= b

\* C1: a finished comparison's ratio is the baseline's smallest timing
\* divided by the variant's smallest timing (the float nearest to that
\* quotient), it is 5 for [10, 12, 11] against [2, 3, 2] and 1 for [5]
\* against [5], and it exceeds 1 exactly when the variant's best is
\* strictly smaller than the baseline's.
C1_RatioIsBaselineOverVariant ==
    cmp_pc = "done" =>
        /\ \E i \in 1..Len(baseline), j \in 1..Len(variant) :
             /\ IsMin(baseline[i], baseline)
             /\ IsMin(variant[j], variant)
             /\ variant[j] > 0
             /\ NearestTo(ratio, baseline[i], variant[j])
             /\ (FLess(FOne, ratio) <=> variant[j] < baseline[i])
        /\ (baseline = <<10, 12, 11>> /\ variant = <<2, 3, 2>> => FEqInt(ratio, 5))
        /\ (baseline = <<5>> /\ variant = <<5>> => FEqInt(ratio, 1))

C1_Witness ==
    /\ cmp_pc = "done"
    /\ baseline = <<10, 12, 11>>
    /\ variant = <<2, 3, 2>>
    /\ FEqInt(ratio, 5)

\* the sample's smallest timing is zero
ZeroBest(s) == s # <<>> /\ IsMin(0, s)

\* C2: a comparison in which the best of either sample is zero ends in an
\* exception and produces no ratio.
C2_DegenerateTimingFails ==
    (cmp_pc \in {"done", "raised"} /\ (ZeroBest(baseline) \/ ZeroBest(variant))) =>
        /\ cmp_pc = "raised"
        /\ cmp_err # None
        /\ ratio = NoValue

\* C3: the best of a non-empty sample is one of its elements and is less
\* than or equal to every element.
C3_BestIsMinimum ==
    /\ bbest # NoValue =>
         \E i \in 1..Len(baseline) :
            FEqInt(bbest, baseline[i]) /\ IsMin(baseline[i], baseline)
    /\ vbest # NoValue =>
         \E j \in 1..Len(variant) :
            FEqInt(vbest, variant[j]) /\ IsMin(variant[j], variant)

C3_Witness ==
    /\ bbest # NoValue
    /\ Len(baseline) = 2
    /\ baseline[1] > baseline[2]
    /\ FEqInt(bbest, baseline[2])

\* C4: a %timeit run that returns has one entry per repeat, every entry is
\* non-negative, the timed blocks invoked the statement repeat * number
\* times, and with an explicit loop count these are all its invocations.
C4_SampleLengthIsRepeats ==
    tm_pc = "done" =>
        /\ repeat > 0
        /\ Len(result.all_runs) = repeat
        /\ \A i \in 1..Len(result.all_runs) : result.all_runs[i] >= 0
        /\ calls - tune_calls = repeat * number
        /\ (opt_n > 0 => number = opt_n /\ calls = repeat * opt_n)

C4_Witness ==
    /\ tm_pc = "done"
    /\ opt_n = 2
    /\ repeat = TimeitRepeat
    /\ calls = 2 * TimeitRepeat
    /\ Len(result.all_runs) = TimeitRepeat

\* the exception the specification calls EmptySampleError
EmptySampleError == "ValueError"

\* C5: with an empty baseline sample the comparison ends in
\* EmptySampleError at the baseline's best, before any division: no ratio
\* is produced.
C5_EmptySampleFailsFirst ==
    (baseline = <<>> /\ cmp_pc # "baseline") =>
        /\ cmp_pc = "raised"
        /\ cmp_err = EmptySampleError
        /\ bbest = NoValue
        /\ ratio = NoValue
        /\ divisions = 0

C5_Witness ==
    /\ baseline = <<>>
    /\ variant = <<2, 3, 2>>
    /\ cmp_pc = "raised"
    /\ cmp_err = EmptySampleError

\* C6: once the timed statement has raised, %timeit has ended with that
\* exception, no TimeitResult exists, and the statement is not invoked
\* again nor is an entry added to the sample.
C6_TargetFailurePropagates ==
    /\ [](tm_err = "TargetException" => tm_pc = "raised" /\ result = NoResult)
    /\ [][tm_err = "TargetException" => calls' = calls /\ all_runs' = all_runs]_vars

C6_Witness ==
    /\ tm_err = "TargetException"
    /\ tm_pc = "raised"
    /\ Len(all_runs) = 1
    /\ repeat = TimeitRepeat
    /\ result = NoResult

\* the float x is within one machine epsilon, 2^(1 - FloatBits), of 1
WithinEpsOfOne(x) ==
    IF x.e >= 0
    THEN Abs(x.m * Pow2(x.e) - 1) * Pow2(FloatBits - 1) <= 1
    ELSE Abs(x.m - Pow2(-x.e)) * Pow2(FloatBits - 1) <= Pow2(-x.e)

\* both orders of the comparison are done
BothOrdersDone == cmp_pc = "done" /\ prev_ratio # NoValue

\* C7 as stated: the ratios of the two orders multiply to exactly 1.
C7_ProductIsExactlyOne ==
    BothOrdersDone => FMul(prev_ratio, ratio) = FOne

\* C7 as amended: the ratios of the two orders multiply to 1 within one
\* machine epsilon.
C7_ProductIsOneWithinTolerance ==
    BothOrdersDone => WithinEpsOfOne(FMul(prev_ratio, ratio))

C7_Witness ==
    /\ BothOrdersDone
    /\ FLess(FOne, ratio)
    /\ FMul(prev_ratio, ratio) # FOne

\* the cell times the name itself: it holds  name = %timeit -o ...
MeasuredIn(cl, name) ==
    \E i \in 1..Len(cl.stmts) :
        cl.stmts[i].kind = "timeit" /\ name \in cl.stmts[i].binds

\* C8 as stated: every printed ratio is computed from two timing results
\* measured in the cell that prints it.
C8_RatioFromSameCell ==
    \A i \in 1..Len(printed) :
        /\ printed[i].num_cell = printed[i].cell
        /\ printed[i].den_cell = printed[i].cell

\* the operand of a ratio printed by cell c was bound by cell b
OperandFrom(name, b, c) ==
    /\ b = ns[name].cell
    /\ IF MeasuredIn(Cells(notebook)[c], name) THEN b = c ELSE b >= 1 /\ b < c

\* C8 as amended: timing results stay bound in the kernel namespace from
\* cell to cell, and every printed ratio is computed from the current
\* bindings of its two names: an operand the cell times itself comes from
\* that cell, any other operand from an earlier cell (001: speedup, cell 6,
\* from cells 3 and 5; 002: cells 11, 13 and 16 from cells 9, 9 and 13).
C8_RatioFromNamespace ==
    \A i \in 1..Len(printed) :
        LET r == printed[i]
        IN  /\ OperandFrom(r.num, r.num_cell, r.cell)
            /\ OperandFrom(r.den, r.den_cell, r.cell)
            /\ (notebook = "cython" /\ r.cell = 6 => r.num_cell = 3 /\ r.den_cell = 5)
            /\ (notebook = "cython" /\ r.cell # 6 =>
                    r.num_cell = r.cell /\ r.den_cell = r.cell)
            /\ (notebook = "numba" /\ r.cell = 11 =>
                    r.num_cell = 11 /\ r.den_cell = 9)
            /\ (notebook = "numba" /\ r.cell = 13 =>
                    r.num_cell = 9 /\ r.den_cell = 13)
            /\ (notebook = "numba" /\ r.cell = 16 =>
                    r.num_cell = 13 /\ r.den_cell = 16)
            /\ (notebook = "numba" /\ r.cell \in {4, 9} =>
                    r.num_cell = r.cell /\ r.den_cell = r.cell)

C8_Witness ==
    /\ notebook = "numba"
    /\ Len(printed) = 1
    /\ printed[1].cell = 11
    /\ printed[1].den = "time_pdist_numpy"
    /\ printed[1].den_cell = 9

\* the first k Fibonacci numbers: F(1) = F(2) = 1, F(j) = F(j-1) + F(j-2)
RECURSIVE FibSeq(_)
FibSeq(k) ==
    IF k <= 2 THEN <<Big(1), Big(1)>>
    ELSE LET s == FibSeq(k - 1)
         IN  Append(s, BigAdd(s[k - 1], s[k - 2]))

FibTable == FibSeq(MaxN + 3)

F(k) == FibTable[k]

C10_FibReturnsFibonacci ==
    /\ py_pc \in {"loop", "done"} =>
         /\ py_a = F(py_i + 2)
         /\ py_b = F(py_i + 1)
         /\ py_i <= (IF fib_n > 0 THEN fib_n ELSE 0)
    /\ py_pc = "done" =>
         /\ py_i = (IF fib_n > 0 THEN fib_n ELSE 0)
         /\ py_ret = PyObj(F(py_i + 2))
         /\ (fib_n <= 0 => py_ret = PyObj(Big(1)))
         /\ (fib_n = 1 => py_ret = PyObj(Big(2)))
         /\ (fib_n = 10 => py_ret = PyObj(Big(144)))

C10_Witness ==
    /\ py_pc = "done"
    /\ fib_n = 10
    /\ py_i = 10
    /\ py_ret = PyObj(Big(144))

\* the kernel started with an empty namespace: no name was bound at startup
EmptyAtStartup == \A x \in Names : ns[x].cell # Startup

\* C11: when the cells of a notebook are run once each, top to bottom, from
\* an empty kernel namespace, every name a cell reads when it runs (names
\* read by the body of a function it calls included) has been bound by an
\* earlier or the same cell, so no cell ends in a NameError, and every
\* %%cython cell runs after %load_ext Cython, so none ends in a UsageError;
\* in particular np is bound before the first cell of 002-numba that times
\* pdist_numpy(np.random.randn(5, 100)).
C11_EveryNameBoundBeforeUse ==
    EmptyAtStartup => nb_err \notin {"NameError", "UsageError"}

====
